---------------------------- MODULE Spec2Model ----------------------------
(***************************************************************************)
(* The download controller of the Langsam Songs Downloader page.           *)
(*                                                                         *)
(* The repository holds two variants of the controller:                    *)
(*   "retrying"  src/static/js/app.js   (pattern list, retry loop,         *)
(*                                       guarded JSON parse, 1500 ms /     *)
(*                                       120000 ms frame timers)           *)
(*   "single"    src/unnamed/part_000   (one anchored pattern, one fetch,  *)
(*                                       unguarded JSON parse, 1000 ms /   *)
(*                                       60000 ms frame timers)            *)
(* A page loads one of them; the variable variant says which.              *)
(*                                                                         *)
(* Texts are TLA+ strings; TLC evaluates Len, SubSeq and \o on them.       *)
(***************************************************************************)
EXTENDS Integers, Sequences, FiniteSets, TLC

VARIABLES
    variant,    \* which of the two source files the page runs
    page,       \* isProcessing and the DOM state the handlers read and write
    tasks,      \* the startDownload calls suspended at an await
    timers,     \* pending setTimeout callbacks, in creation order
    frames,     \* the hidden iframes that are children of document.body
    started,    \* how many startDownload calls have begun (caps the model)
    nextFrame,  \* how many iframes have been created
    concluded,  \* history: the startDownload call that returned in the last step
    lastOp,     \* history: the handler or callback that ran last
    applied     \* a call of a pure function on its own: argument and result

vars == <<variant, page, tasks, timers, frames, started, nextFrame, concluded, lastOp, applied>>

-----------------------------------------------------------------------------
(* Bounds of the model *)

\* the longest duration formatDuration is applied to, in seconds
MaxSeconds == 7325

MaxAttempts == 2

MaxPaste == 1

-----------------------------------------------------------------------------
(* Program constants *)

PasteDelay == 10

RetryCount == 2

RetryDelay == 1000

SuccessDelay == 500

ResetDelay == 4000

LongVideoLimit == 900

ResolveDelayRetrying == 1500

CleanupDelayRetrying == 120000

ResolveDelaySingle == 1000

CleanupDelaySingle == 60000

Variants == {"retrying", "single"}

ResolveDelay(v) == IF v = "retrying" THEN ResolveDelayRetrying ELSE ResolveDelaySingle

CleanupDelay(v) == IF v = "retrying" THEN CleanupDelayRetrying ELSE CleanupDelaySingle

-----------------------------------------------------------------------------
(* Text helpers: what the JavaScript string and RegExp operations do *)

CharAt(s, i) == SubSeq(s, i, i)

UpperCase == "ABCDEFGHIJKLMNOPQRSTUVWXYZ"

LowerCase == "abcdefghijklmnopqrstuvwxyz"

Digits == "0123456789"

InString(c, s) == \E i \in 1..Len(s) : CharAt(s, i) = c

\* the lower-case form of one character (the /i flag's case folding on ASCII)
LowerChar(c) ==
    IF InString(c, UpperCase)
    THEN CharAt(LowerCase, CHOOSE i \in 1..26 : CharAt(UpperCase, i) = c)
    ELSE c

RECURSIVE ToLower(_)
ToLower(s) == IF s = "" THEN "" ELSE LowerChar(CharAt(s, 1)) \o ToLower(Tail(s))

\* JavaScript's white space, as far as the inputs of the model hold any
IsSpace(c) == c \in {" ", "\t", "\n"}

RECURSIVE TrimStart(_)
TrimStart(s) == IF s /= "" /\ IsSpace(CharAt(s, 1)) THEN TrimStart(Tail(s)) ELSE s

RECURSIVE TrimEnd(_)
TrimEnd(s) ==
    IF s /= "" /\ IsSpace(CharAt(s, Len(s)))
    THEN TrimEnd(SubSeq(s, 1, Len(s) - 1))
    ELSE s

\* String.prototype.trim
trim(s) == TrimEnd(TrimStart(s))

\* the characters encodeURIComponent leaves as they are
Unescaped == UpperCase \o LowerCase \o Digits \o "-_.!~*'()"

\* the other ASCII characters the texts of the model hold
Escaped == {" ", "/", ":", "?", "=", "&", "%"}

\* the %XX escape of a character of Escaped
Escape(c) ==
    CASE c = " " -> "%20" [] c = "/" -> "%2F" [] c = ":" -> "%3A" [] c = "?" -> "%3F"
      [] c = "=" -> "%3D" [] c = "&" -> "%26" [] c = "%" -> "%25"

RECURSIVE encodeURIComponent(_)
encodeURIComponent(s) ==
    IF s = "" THEN ""
    ELSE (IF InString(CharAt(s, 1), Unescaped) THEN CharAt(s, 1) ELSE Escape(CharAt(s, 1)))
         \o encodeURIComponent(Tail(s))

\* what the server reads back from a query parameter
RECURSIVE decodeURIComponent(_)
decodeURIComponent(s) ==
    IF s = "" THEN ""
    ELSE IF CharAt(s, 1) = "%"
         THEN (CHOOSE c \in Escaped : Escape(c) = SubSeq(s, 1, 3))
              \o decodeURIComponent(SubSeq(s, 4, Len(s)))
         ELSE CharAt(s, 1) \o decodeURIComponent(Tail(s))

\* a RegExp that is a literal with the i flag, unanchored: lit occurs in s
ContainsCI(s, lit) ==
    \E i \in 1..(Len(s) - Len(lit) + 1) : ToLower(SubSeq(s, i, i + Len(lit) - 1)) = lit

\* [\w-] : a letter, a digit, an underscore or a dash
IsWordOrDash(c) ==
    InString(c, UpperCase) \/ InString(c, LowerCase) \/ InString(c, Digits) \/ c \in {"_", "-"}

\* YOUTUBE_PATTERNS without the pattern for shorts
YOUTUBE_PATTERNSNoShorts ==
    << "youtube.com/watch", "youtu.be/", "youtube.com/embed/", "youtube.com/v/",
       "music.youtube.com" >>

\* app.js: YOUTUBE_PATTERNS, each a literal to find anywhere in the text
YOUTUBE_PATTERNS ==
    << "youtube.com/watch", "youtu.be/", "youtube.com/shorts/",
       "youtube.com/embed/", "youtube.com/v/", "music.youtube.com" >>

\* part_000: YOUTUBE_PATTERN =
\*   ^(https?:\/\/)?(www\.)?(alt1|...|alt5)[\w-]+   with the i flag
PatternSchemes == {"", "http://", "https://"}

PatternWww == {"", "www."}

PatternAlternatives ==
    { "youtube.com/watch?v=", "youtu.be/", "youtube.com/shorts/",
      "youtube.com/embed/", "music.youtube.com/watch?v=" }

YOUTUBE_PATTERN(s) ==
    \E sch \in PatternSchemes, w \in PatternWww, alt \in PatternAlternatives :
        LET prefix == sch \o w \o alt
        IN  /\ Len(s) > Len(prefix)
            /\ ToLower(SubSeq(s, 1, Len(prefix))) = prefix
            /\ IsWordOrDash(CharAt(s, Len(prefix) + 1))

validateUrl(v, url) ==
    IF v = "retrying"
    THEN \E k \in 1..Len(YOUTUBE_PATTERNS) : ContainsCI(url, YOUTUBE_PATTERNS[k])
    ELSE YOUTUBE_PATTERN(url)

\* Number.prototype.toString without padStart
pad2Unpadded(n) == ToString(n)

\* Number.prototype.toString followed by padStart(2, '0')
pad2(n) == IF Len(ToString(n)) < 2 THEN "0" \o ToString(n) ELSE ToString(n)

\* a field the JSON body does not hold (undefined) is <<>>; a number n is <<n>>
Absent == <<>>

Some(n) == <<n>>

\* formatDuration(seconds)
formatDuration(seconds) ==
    IF seconds = Absent \/ seconds[1] = 0 \/ seconds[1] <= 0 THEN "0:00"
    ELSE LET hours == seconds[1] \div 3600
             mins  == (seconds[1] % 3600) \div 60
             secs  == seconds[1] % 60
         IN  IF hours > 0
             THEN ToString(hours) \o ":" \o pad2(mins) \o ":" \o pad2(secs)
             ELSE ToString(mins) \o ":" \o pad2(secs)

-----------------------------------------------------------------------------
(* The page: isProcessing and the DOM fields the handlers read and write *)

InitialPage ==
    [ isProcessing   |-> FALSE,     \* let isProcessing
      value          |-> "",        \* urlInput.value
      inputDisabled  |-> FALSE,     \* urlInput.disabled
      btnDisabled    |-> FALSE,     \* downloadBtn.disabled
      btnLoading     |-> FALSE,     \* downloadBtn has class btn--loading
      clearVisible   |-> FALSE,     \* clearBtn has class visible
      inputErrClass  |-> FALSE,     \* urlInput has class input-group__input--error
      errorVisible   |-> FALSE,     \* inputError has class visible
      errorText      |-> "",        \* inputError.textContent
      hintHidden     |-> FALSE,     \* inputHint.style.display = 'none'
      statusHidden   |-> TRUE,      \* status.hidden
      statusType     |-> "",        \* status.className = status--<type>
      statusTitle    |-> "",
      statusMessage  |-> "",
      progressHidden |-> TRUE,      \* progress.hidden
      stage          |-> "",        \* #progress-stage text
      percent        |-> 0,         \* #progress-percent text, without the % sign
      fill           |-> 0,         \* #progress-fill width, in percent
      songHidden     |-> TRUE,      \* songInfo.hidden
      songDuration   |-> "",        \* #song-duration text
      trace          |-> <<>> ]     \* history: what the running attempt has done

\* history: entry e is added to the trace of the attempt in progress
note(p, e) == IF p.isProcessing THEN [p EXCEPT !.trace = Append(@, e)] ELSE p

\* setProcessingState leaving the button as it is
setProcessingStateInputOnly(p, processing) ==
    [p EXCEPT !.isProcessing = processing, !.inputDisabled = processing]

setProcessingState(p, processing) ==
    [p EXCEPT !.isProcessing = processing,
              !.inputDisabled = processing,
              !.btnDisabled = processing,
              !.btnLoading = processing]

showProgress(p, stage, percent) ==
    note([p EXCEPT !.progressHidden = FALSE, !.stage = stage,
                   !.percent = percent, !.fill = percent],
         "p" \o ToString(percent))

hideProgress(p) == [p EXCEPT !.progressHidden = TRUE, !.fill = 0]

\* the title, channel and thumbnail texts are not part of the model
showSongInfo(p, info) ==
    [p EXCEPT !.songDuration = formatDuration(info.duration), !.songHidden = FALSE]

hideSongInfo(p) == [p EXCEPT !.songHidden = TRUE]

showStatus(p, type, title, message) ==
    note([p EXCEPT !.statusType = type, !.statusTitle = title,
                   !.statusMessage = message, !.statusHidden = FALSE],
         type)

hideStatus(p) == [p EXCEPT !.statusHidden = TRUE]

showSuccess(p, title, message) == showStatus(p, "success", title, message)

showError(p, title, message) == showStatus(p, "error", title, message)

showInfo(p, title, message) == showStatus(p, "info", title, message)

showInputError(p, message) ==
    [p EXCEPT !.inputErrClass = TRUE, !.errorText = message,
              !.errorVisible = TRUE, !.hintHidden = TRUE]

clearInputError(p) ==
    [p EXCEPT !.inputErrClass = FALSE, !.errorVisible = FALSE, !.hintHidden = FALSE]

\* resetForm with the two lines part_000 keeps commented out
resetFormClearing(p) ==
    [clearInputError(hideSongInfo(hideProgress(hideStatus(p))))
        EXCEPT !.value = "", !.clearVisible = FALSE]

resetForm(p) == clearInputError(hideSongInfo(hideProgress(hideStatus(p))))

\* handleInputChange, reading the value the page holds
handleInputChange(p) ==
    LET q == clearInputError([p EXCEPT !.clearVisible = Len(p.value) > 0])
    IN  IF Len(p.value) > 0 THEN hideStatus(q) ELSE q

clearInput(p) ==
    hideSongInfo(clearInputError([p EXCEPT !.value = "", !.clearVisible = FALSE]))

-----------------------------------------------------------------------------
(* The info endpoint, as the page sees it *)

ParserText == "Unexpected token < in JSON at position 0"

NetworkText == "Failed to fetch"

ServerTexts == {"", "quota exceeded"}

Durations == {500, 900, 1000}

\* what one request to /api/info can end in: fetch rejects, or it resolves to a
\* response whose body parses as JSON or does not.  A body that parses is an
\* object (section 6 of the interface): it may hold error, it may hold duration.
Outcomes ==
    [kind : {"reject"}, message : {NetworkText, ""}, ok : {FALSE}, parses : {FALSE},
     error : {Absent}, duration : {Absent}]
    \cup
    [kind : {"response"}, message : {""}, ok : BOOLEAN, parses : {FALSE},
     error : {Absent}, duration : {Absent}]
    \cup
    [kind : {"response"}, message : {""}, ok : {FALSE}, parses : {TRUE},
     error : {Absent} \cup {Some(t) : t \in ServerTexts}, duration : {Absent}]
    \cup
    [kind : {"response"}, message : {""}, ok : {TRUE}, parses : {TRUE},
     error : {Absent}, duration : {Absent} \cup {Some(d) : d \in Durations}]

Threw(message) == [threw |-> TRUE, message |-> message, info |-> [duration |-> Absent]]

Returned(info) == [threw |-> FALSE, message |-> "", info |-> info]

\* data.error || 'Failed to fetch video info'
errorOrDefault(o) ==
    IF o.error /= Absent /\ o.error[1] /= "" THEN o.error[1] ELSE "Failed to fetch video info"

\* fetchVideoInfo without the test of response.ok
fetchVideoInfoNoStatusTest(v, o) ==
    IF o.kind = "reject" THEN Threw(o.message)
    ELSE IF ~o.parses
         THEN (IF v = "retrying" THEN Threw("Server error. Please try again.")
                                 ELSE Threw(ParserText))
    ELSE Returned([duration |-> o.duration])

\* fetchVideoInfo with the request ending in o: what it throws or returns
fetchVideoInfo(v, o) ==
    IF o.kind = "reject" THEN Threw(o.message)
    ELSE IF ~o.parses
         THEN (IF v = "retrying" THEN Threw("Server error. Please try again.")
                                 ELSE Threw(ParserText))
    ELSE IF ~o.ok THEN Threw(errorOrDefault(o))
    ELSE Returned([duration |-> o.duration])

-----------------------------------------------------------------------------
(* The handlers *)

\* the texts the user types or pastes
Texts == {"", "  ", "not a url", " youtu.be/abc123 "}

EmptyMessage == "Please enter a YouTube link"

InvalidMessage == "Please enter a valid YouTube link"

\* trim and validateUrl over the texts of the model, computed once
trimmed == [t \in Texts |-> trim(t)]

valid == [v \in Variants |-> [u \in {trim(t) : t \in Texts} |-> validateUrl(v, u)]]

\* handleSubmit without its test of isProcessing
submitBranchNoGuard(v, p) ==
    IF trimmed[p.value] = "" THEN "empty"
    ELSE IF ~valid[v][trimmed[p.value]] THEN "invalid"
    ELSE "start"

\* handleSubmit testing the text before it tests isProcessing
submitBranchTextFirst(v, p) ==
    IF trimmed[p.value] = "" THEN "empty"
    ELSE IF ~valid[v][trimmed[p.value]] THEN "invalid"
    ELSE IF p.isProcessing THEN "ignored"
    ELSE "start"

\* handleSubmit testing the text as typed, not trimmed, for emptiness
submitBranchNoTrim(v, p) ==
    IF p.isProcessing THEN "ignored"
    ELSE IF p.value = "" THEN "empty"
    ELSE IF ~valid[v][trimmed[p.value]] THEN "invalid"
    ELSE "start"

\* handleSubmit: which of its four exits a submit event takes
submitBranch(v, p) ==
    IF p.isProcessing THEN "ignored"
    ELSE IF trimmed[p.value] = "" THEN "empty"
    ELSE IF ~valid[v][trimmed[p.value]] THEN "invalid"
    ELSE "start"

\* startDownload up to its first await: the page it leaves
beginAttempt(p) ==
    showProgress(hideSongInfo(hideStatus(setProcessingState(p, TRUE))),
                 "Fetching video info...", 5)

NoOutcome ==
    [kind |-> "none", message |-> "", ok |-> FALSE, parses |-> FALSE,
     error |-> Absent, duration |-> Absent]

InfoPath == "/api/info?url="

DownloadPath == "/api/download?url="

\* encodeURIComponent over the trimmed texts of the model, computed once
encoded == [u \in {trim(t) : t \in Texts} |-> encodeURIComponent(u)]

\* the text a request is built from, read from the input when the request is made
requestTextFromInput(t, p) == trimmed[p.value]

\* the text a request is built from: the url parameter of startDownload, which
\* fetchVideoInfo(url) and triggerDownload(url, info.title) receive
requestText(t, p) == t.url

\* task t issues the request path + encodeURIComponent(url)
send(t, p, path) ==
    [t EXCEPT !.sent = Append(@, path \o encoded[requestText(t, p)])]

\* the startDownload call suspended at await fetchVideoInfo(url)
NewTask(id, url, typed) ==
    [ id        |-> id,
      url       |-> url,
      typed     |-> typed,          \* history: urlInput.value at the submission
      sent      |-> <<>>,           \* history: the requests issued, in order
      pc        |-> "fetch",        \* fetch | sleep | trigger
      retries   |-> RetryCount,
      lastError |-> Absent,
      info      |-> Absent,
      frame     |-> 0,              \* the iframe of triggerDownload, 0 before
      nreq      |-> 1,              \* history: info requests issued
      last      |-> NoOutcome ]     \* history: how the last request ended

HandleSubmit ==
    LET b == submitBranch(variant, page) IN
    /\ lastOp' = "handleSubmit"
    /\ UNCHANGED applied
    /\ concluded' = <<>>
    /\ UNCHANGED <<variant, timers, frames, nextFrame>>
    /\ \/ /\ b = "ignored"
          /\ UNCHANGED <<page, tasks, started>>
       \/ /\ b = "empty"
          /\ page' = showInputError(page, EmptyMessage)
          /\ UNCHANGED <<tasks, started>>
       \/ /\ b = "invalid"
          /\ page' = showInputError(page, InvalidMessage)
          /\ UNCHANGED <<tasks, started>>
       \/ /\ b = "start"
          /\ started < MaxAttempts
          /\ page' = note(beginAttempt(page), "req")
          /\ tasks' = Append(tasks, send(NewTask(started + 1, trimmed[page.value], page.value),
                                        page, InfoPath))
          /\ started' = started + 1

\* the user edits the field (a disabled input takes no edits): the input event
InputEvent(text) ==
    /\ ~page.inputDisabled
    /\ text /= page.value
    /\ page' = handleInputChange([page EXCEPT !.value = text])
    /\ lastOp' = "handleInputChange"
    /\ UNCHANGED applied
    /\ concluded' = <<>>
    /\ UNCHANGED <<variant, tasks, timers, frames, started, nextFrame>>

PasteTimer == [kind |-> "paste", delay |-> PasteDelay, task |-> 0, frame |-> 0]

NumPaste == Cardinality({k \in 1..Len(timers) : timers[k].kind = "paste"})

\* the user pastes text over the field's content: handlePaste sets its timer,
\* the browser then replaces the value and fires the input event
Paste(text) ==
    /\ ~page.inputDisabled
    /\ text /= ""
    /\ NumPaste < MaxPaste
    /\ timers' = Append(timers, PasteTimer)
    /\ page' = handleInputChange([page EXCEPT !.value = text])
    /\ lastOp' = "handlePaste"
    /\ UNCHANGED applied
    /\ concluded' = <<>>
    /\ UNCHANGED <<variant, tasks, frames, started, nextFrame>>

\* a click on the clear button, which setProcessingState does not disable
ClickClear ==
    /\ page' = clearInput(page)
    /\ lastOp' = "clearInput"
    /\ UNCHANGED applied
    /\ concluded' = <<>>
    /\ UNCHANGED <<variant, tasks, timers, frames, started, nextFrame>>

-----------------------------------------------------------------------------
(* startDownload after its first await, and the timer callbacks *)

Remove(seq, k) == SubSeq(seq, 1, k - 1) \o SubSeq(seq, k + 1, Len(seq))

TaskIndex(id) == CHOOSE i \in 1..Len(tasks) : tasks[i].id = id

\* setTimeout callbacks run in deadline order: a timer set no later than
\* another, with a delay no longer, runs first.  timers is in creation order.
CanFire(k) == \A j \in 1..(k - 1) : timers[j].delay > timers[k].delay

\* the retry loop testing retries >= 0 before it decrements
retryAgainTestFirst(v, retries) == v = "retrying" /\ retries >= 0

\* the retry loop after a failed fetchVideoInfo: retries--, then retries >= 0
retryAgain(v, retries) == v = "retrying" /\ retries - 1 >= 0

\* the long-video test written with >= for >
isLongVideoInclusive(info) == info.duration /= Absent /\ info.duration[1] >= LongVideoLimit

\* info.duration > 900, false when duration is undefined
isLongVideo(info) == info.duration /= Absent /\ info.duration[1] > LongVideoLimit

LongVideoMessage(info) ==
    "This video is " \o formatDuration(info.duration) \o ". Download may take a few minutes."

\* startDownload from showSongInfo(info) to the call of triggerDownload
showInfoStages(p, info) ==
    LET p30 == showProgress(showSongInfo(p, info), "Preparing download...", 30)
        p45 == IF isLongVideo(info)
               THEN showInfo(p30, "Long video detected", LongVideoMessage(info))
               ELSE p30
    IN  showProgress(p45, "Downloading...", 60)

\* the catch block showing error.message with no fallback
failAttemptNoFallback(p, message) ==
    setProcessingState(
        hideSongInfo(hideProgress(showError(p, "Download failed", message))), FALSE)

\* the catch block of startDownload with no finally block after it
failAttemptNoFinally(p, message) ==
    LET shown == IF message = "" THEN "Please try again." ELSE message
    IN  hideSongInfo(hideProgress(showError(p, "Download failed", shown)))

\* the catch block and the finally block of startDownload
failAttempt(p, message) ==
    LET shown == IF message = "" THEN "Please try again." ELSE message
    IN  setProcessingState(
            hideSongInfo(hideProgress(showError(p, "Download failed", shown))), FALSE)

\* startDownload after await triggerDownload, without its two setTimeout calls
completeAttempt(p) == setProcessingState(showProgress(p, "Complete!", 100), FALSE)

SleepTimer(id) == [kind |-> "sleep", delay |-> RetryDelay, task |-> id, frame |-> 0]

ResolveTimer(v, id, f) == [kind |-> "resolve", delay |-> ResolveDelay(v), task |-> id, frame |-> f]

CleanupTimer(v, f) == [kind |-> "cleanup", delay |-> CleanupDelay(v), task |-> 0, frame |-> f]

SuccessTimer == [kind |-> "success", delay |-> SuccessDelay, task |-> 0, frame |-> 0]

ResetTimer == [kind |-> "reset", delay |-> ResetDelay, task |-> 0, frame |-> 0]

\* triggerDownload resolving without setting its cleanup timer
cleanupTimersNone(v, f) == <<>>

\* triggerDownload's inner callback, set when the outer one runs
cleanupTimers(v, f) == <<CleanupTimer(v, f)>>

\* the two setTimeout calls with their delays exchanged
successTimersExchanged ==
    <<[SuccessTimer EXCEPT !.delay = ResetDelay], [ResetTimer EXCEPT !.delay = SuccessDelay]>>

\* the two setTimeout calls of startDownload's success step
successTimers == <<SuccessTimer, ResetTimer>>

\* the error startDownload's catch block receives: in the retry loop lastError,
\* which holds the error just caught; without the loop, that error itself
thrownError(t, r) == r.message

\* history: the attempt of task t ends, leaving page p
Concluded(t, o, outcome, message, p) ==
    << [id |-> t.id, outcome |-> outcome, message |-> message, last |-> o,
        nreq |-> t.nreq, frame |-> t.frame, trace |-> p.trace] >>

EndTrace(p) == [p EXCEPT !.trace = <<>>]

\* the request of task i ends in o and fetchVideoInfo throws: retry or give up
FetchFailed(i, o) ==
    LET t == tasks[i]
        r == fetchVideoInfo(variant, o)
    IN  /\ r.threw
        /\ UNCHANGED <<frames, nextFrame>>
        /\ \/ /\ retryAgain(variant, t.retries)
              /\ page' = showProgress(note(page, "fail"), "Retrying...", 10)
              /\ tasks' = [tasks EXCEPT ![i] =
                              [t EXCEPT !.pc = "sleep", !.retries = @ - 1,
                                        !.lastError = Some(r.message), !.last = o]]
              /\ timers' = Append(timers, SleepTimer(t.id))
              /\ concluded' = <<>>
           \/ /\ ~retryAgain(variant, t.retries)
              /\ LET q == failAttempt(note(page, "fail"), thrownError(t, r))
                 IN  /\ page' = EndTrace(q)
                     /\ concluded' = Concluded(t, o, "error", r.message, q)
              /\ tasks' = Remove(tasks, i)
              /\ UNCHANGED timers

\* the request of task i ends in o and fetchVideoInfo returns the info
FetchSucceeded(i, o) ==
    LET t == tasks[i]
        r == fetchVideoInfo(variant, o)
        f == nextFrame + 1
    IN  /\ ~r.threw
        /\ page' = note(showInfoStages(note(page, "ok"), r.info), "frame")
        /\ frames' = frames \cup {f}
        /\ nextFrame' = f
        /\ timers' = Append(timers, ResolveTimer(variant, t.id, f))
        /\ tasks' = [tasks EXCEPT ![i] =
                        [send(t, page, DownloadPath)
                            EXCEPT !.pc = "trigger", !.info = Some(r.info),
                                   !.frame = f, !.last = o]]
        /\ concluded' = <<>>

FetchSettled(i, o) ==
    /\ tasks[i].pc = "fetch"
    /\ lastOp' = "fetchSettled"
    /\ UNCHANGED applied
    /\ UNCHANGED <<variant, started>>
    /\ (FetchFailed(i, o) \/ FetchSucceeded(i, o))

\* sleep(1000) is over: the loop calls fetchVideoInfo again
SleepFired(k) ==
    /\ timers[k].kind = "sleep"
    /\ CanFire(k)
    /\ LET i == TaskIndex(timers[k].task)
       IN  tasks' = [tasks EXCEPT ![i] =
                        [send(@, page, InfoPath) EXCEPT !.pc = "fetch", !.nreq = @ + 1]]
    /\ page' = note(note(page, "slept"), "req")
    /\ timers' = Remove(timers, k)
    /\ lastOp' = "sleepFired"
    /\ UNCHANGED applied
    /\ concluded' = <<>>
    /\ UNCHANGED <<variant, frames, started, nextFrame>>

\* triggerDownload's outer callback sets the cleanup timer and resolves; the
\* awaiting startDownload runs on to its end before any other callback
ResolveFired(k) ==
    /\ timers[k].kind = "resolve"
    /\ CanFire(k)
    /\ LET i == TaskIndex(timers[k].task)
           q == completeAttempt(note(page, "resolved"))
       IN  /\ tasks' = Remove(tasks, i)
           /\ page' = EndTrace(q)
           /\ concluded' = Concluded(tasks[i], tasks[i].last, "success", "", q)
    /\ timers' = Remove(timers, k) \o cleanupTimers(variant, timers[k].frame) \o successTimers
    /\ lastOp' = "resolveFired"
    /\ UNCHANGED applied
    /\ UNCHANGED <<variant, frames, started, nextFrame>>

SuccessFired(k) ==
    /\ timers[k].kind = "success"
    /\ CanFire(k)
    /\ page' = hideProgress(showSuccess(page, "Download started!", "Check your browser downloads."))
    /\ timers' = Remove(timers, k)
    /\ lastOp' = "successFired"
    /\ UNCHANGED applied
    /\ concluded' = <<>>
    /\ UNCHANGED <<variant, tasks, frames, started, nextFrame>>

ResetFired(k) ==
    /\ timers[k].kind = "reset"
    /\ CanFire(k)
    /\ page' = resetForm(page)
    /\ timers' = Remove(timers, k)
    /\ lastOp' = "resetFired"
    /\ UNCHANGED applied
    /\ concluded' = <<>>
    /\ UNCHANGED <<variant, tasks, frames, started, nextFrame>>

\* document.body.removeChild(iframe); app.js first tests iframe.parentNode, and
\* part_000's call throws, changing nothing, when the frame is no child
CleanupFired(k) ==
    /\ timers[k].kind = "cleanup"
    /\ CanFire(k)
    /\ frames' = frames \ {timers[k].frame}
    /\ timers' = Remove(timers, k)
    /\ lastOp' = "cleanupFired"
    /\ UNCHANGED applied
    /\ concluded' = <<>>
    /\ UNCHANGED <<variant, page, tasks, started, nextFrame>>

\* handlePaste's delayed handleInputChange
PasteFired(k) ==
    /\ timers[k].kind = "paste"
    /\ CanFire(k)
    /\ page' = handleInputChange(page)
    /\ timers' = Remove(timers, k)
    /\ lastOp' = "pasteFired"
    /\ UNCHANGED applied
    /\ concluded' = <<>>
    /\ UNCHANGED <<variant, tasks, frames, started, nextFrame>>

-----------------------------------------------------------------------------
(* The specification *)

Init ==
    /\ variant \in Variants
    /\ page = InitialPage
    /\ tasks = <<>>
    /\ timers = <<>>
    /\ frames = {}
    /\ started = 0
    /\ nextFrame = 0
    /\ concluded = <<>>
    /\ lastOp = "init"
    /\ applied = <<>>

Settle == \E i \in 1..Len(tasks), o \in Outcomes : FetchSettled(i, o)

FireSleep == \E k \in 1..Len(timers) : SleepFired(k)

FireResolve == \E k \in 1..Len(timers) : ResolveFired(k)

FireSuccess == \E k \in 1..Len(timers) : SuccessFired(k)

FireReset == \E k \in 1..Len(timers) : ResetFired(k)

FireCleanup == \E k \in 1..Len(timers) : CleanupFired(k)

FirePaste == \E k \in 1..Len(timers) : PasteFired(k)

Next ==
    \/ HandleSubmit
    \/ \E text \in Texts : InputEvent(text)
    \/ \E text \in Texts : Paste(text)
    \/ ClickClear
    \/ Settle
    \/ FireSleep
    \/ FireResolve
    \/ FireSuccess
    \/ FireReset
    \/ FireCleanup
    \/ FirePaste

Spec == Init /\ [][Next]_vars

\* every request ends and every timer runs
FairSpec ==
    /\ Spec
    /\ WF_vars(Settle)
    /\ WF_vars(FireSleep)
    /\ WF_vars(FireResolve)
    /\ WF_vars(FireSuccess)
    /\ WF_vars(FireReset)
    /\ WF_vars(FireCleanup)
    /\ WF_vars(FirePaste)

-----------------------------------------------------------------------------
(* The pure functions, each applied on its own to an argument *)

\* the state of the page before any event, with a call that has not run
Idle(call) ==
    /\ variant \in Variants
    /\ page = InitialPage
    /\ tasks = <<>>
    /\ timers = <<>>
    /\ frames = {}
    /\ started = 0
    /\ nextFrame = 0
    /\ concluded = <<>>
    /\ lastOp = "init"
    /\ applied = << call >>

\* the arguments of formatDuration: undefined, a negative number, 0, positive
DurationInputs == {Absent} \cup {Some(n) : n \in (-2)..MaxSeconds}

FormatInit ==
    \E d \in DurationInputs : Idle([fn |-> "formatDuration", arg |-> d, result |-> Absent])

ApplyFormatDuration ==
    /\ applied[1].fn = "formatDuration"
    /\ applied[1].result = Absent
    /\ applied' = << [applied[1] EXCEPT !.result = Some(formatDuration(applied[1].arg))] >>
    /\ lastOp' = "formatDuration"
    /\ UNCHANGED <<variant, page, tasks, timers, frames, started, nextFrame, concluded>>

FormatNext == ApplyFormatDuration

FormatSpec == FormatInit /\ [][FormatNext]_vars

\* the upper-case form of one character
UpperChar(c) ==
    IF InString(c, LowerCase)
    THEN CharAt(UpperCase, CHOOSE i \in 1..26 : CharAt(LowerCase, i) = c)
    ELSE c

RECURSIVE ToUpper(_)
ToUpper(s) == IF s = "" THEN "" ELSE UpperChar(CharAt(s, 1)) \o ToUpper(Tail(s))

LinkSchemes == {"", "http://", "https://"}

LinkWww == {"", "www."}

\* one link of each kind, after the scheme and 'www.'
LinkBodies ==
    { "youtube.com/watch?v=abc123", "youtu.be/abc123", "youtube.com/shorts/abc123",
      "youtube.com/embed/abc123", "music.youtube.com/watch?v=abc123" }

\* the links as written and in capitals
Links ==
    LET plain == {sch \o w \o body : sch \in LinkSchemes, w \in LinkWww, body \in LinkBodies}
    IN  plain \cup {ToUpper(l) : l \in plain}

OtherTexts ==
    { "", "https://vimeo.com/123", "not a url", "https://youtube.com/v/abc123",
      "https://www.youtube.com/", "https://example.com/watch?v=abc123",
      "youtube", "youtu.be", "https://music.youtube.com/", "see youtu.be/abc123",
      "https://youtube.com/playlist?list=abc123", "https://youtube.com/shorts/" }

\* the arguments of validateUrl
UrlInputs == Links \cup OtherTexts

ValidateInit ==
    \E u \in UrlInputs : Idle([fn |-> "validateUrl", arg |-> u, result |-> Absent])

ApplyValidateUrl ==
    /\ applied[1].fn = "validateUrl"
    /\ applied[1].result = Absent
    /\ applied' = << [applied[1] EXCEPT !.result = Some(validateUrl(variant, applied[1].arg))] >>
    /\ lastOp' = "validateUrl"
    /\ UNCHANGED <<variant, page, tasks, timers, frames, started, nextFrame, concluded>>

ValidateNext == ApplyValidateUrl

ValidateSpec == ValidateInit /\ [][ValidateNext]_vars

-----------------------------------------------------------------------------
(* Properties *)

\* C1: in every reachable state at most one startDownload call is in flight,
\* and one is in flight exactly while isProcessing is true: no second call
\* begins between setProcessingState(true) and setProcessingState(false).
C1_SingleFlight ==
    /\ Len(tasks) <= 1
    /\ page.isProcessing <=> Len(tasks) = 1

\* a submit event was handled while a call was waiting on a timer
C1_Witness ==
    /\ Len(tasks) = 1
    /\ tasks[1].pc \in {"sleep", "trigger"}
    /\ lastOp = "handleSubmit"

\* C2: a submit event handled while isProcessing is true issues no request and
\* changes nothing of the page, the calls in flight, the timers or the frames,
\* whatever the input holds.
C2_IgnoredSubmit ==
    [][(page.isProcessing /\ HandleSubmit)
          => UNCHANGED <<page, tasks, timers, frames, started, nextFrame>>]_vars

\* a submit event was handled during an attempt, the input holding no text
C2_Witness ==
    /\ page.isProcessing
    /\ lastOp = "handleSubmit"
    /\ page.value = ""
    /\ ~page.errorVisible

\* C3: every attempt that starts ends (each request ends, each timer runs) with
\* isProcessing false and the input and the button enabled, as the state it
\* ends in shows on the success path and on the failure path alike; and a valid
\* text submitted after an attempt has ended starts the next attempt.
C3_AttemptConcludes ==
    /\ page.isProcessing
           ~> (~page.isProcessing /\ ~page.inputDisabled /\ ~page.btnDisabled)
    /\ [](concluded /= <<>>
            => (~page.isProcessing /\ ~page.inputDisabled /\ ~page.btnDisabled))
    /\ [][(/\ started >= 1
           /\ ~page.isProcessing
           /\ trim(page.value) /= ""
           /\ validateUrl(variant, trim(page.value))
           /\ HandleSubmit)
             => (/\ page'.isProcessing
                 /\ Len(tasks') = 1
                 /\ tasks'[1].id = started + 1
                 /\ tasks'[1].url = trim(page.value))]_vars

\* a second attempt runs after a first one has failed
C3_Witness ==
    /\ started = 2
    /\ Len(tasks) = 1
    /\ page.isProcessing
    /\ page.statusType = "error"

\* C4: a submit event handled while idle whose trimmed text is empty or fails
\* validateUrl starts no call, sets no flag and changes nothing of the page but
\* the inline input error, whose text is 'Please enter a YouTube link' for empty
\* or white text and 'Please enter a valid YouTube link' otherwise.
C4_RejectedSubmit ==
    [][(/\ ~page.isProcessing
        /\ HandleSubmit
        /\ (trim(page.value) = "" \/ ~validateUrl(variant, trim(page.value))))
          => /\ UNCHANGED <<tasks, timers, frames, started, nextFrame>>
             /\ ~page'.isProcessing
             /\ page' = [page EXCEPT
                            !.inputErrClass = TRUE,
                            !.errorVisible = TRUE,
                            !.hintHidden = TRUE,
                            !.errorText = IF page.value \in {"", "  "}
                                          THEN "Please enter a YouTube link"
                                          ELSE "Please enter a valid YouTube link"]]_vars

\* white text was submitted and the message for empty text is shown
C4_Witness ==
    /\ lastOp = "handleSubmit"
    /\ page.value = "  "
    /\ page.errorVisible
    /\ page.errorText = "Please enter a YouTube link"
    /\ ~page.isProcessing
    /\ started > 0

-----------------------------------------------------------------------------
(* Reading a trace *)

Count(tr, e) == Cardinality({k \in DOMAIN tr : tr[k] = e})

\* the trace of the attempt in progress, or of the one that has just ended
CurrentTrace == IF concluded /= <<>> THEN concluded[1].trace ELSE page.trace

\* a status an earlier attempt's success timer shows is no part of the attempt
OwnTrace == SelectSeq(CurrentTrace, LAMBDA e : e /= "success")

ProgressEntries == {"p5", "p10", "p30", "p60", "p100"}

ProgressTrace == SelectSeq(CurrentTrace, LAMBDA e : e \in ProgressEntries)

\* what the catch block shows for an error message
Shown(message) == IF message = "" THEN "Please try again." ELSE message

EndedIn(outcome) == concluded /= <<>> /\ concluded[1].outcome = outcome

\* C5: in the retrying variant an attempt issues at most 3 info requests; every
\* request but the first directly follows a failed request, the 'Retrying...'
\* update at 10% and the 1000 ms pause, in this order; no request follows a
\* success; and an attempt that fails has seen 3 requests fail and shows the
\* error of the last one.
C5_RetryPolicy ==
    variant = "retrying" =>
        LET tr == OwnTrace IN
        /\ Count(tr, "req") <= 3
        /\ \A k \in DOMAIN tr :
              (tr[k] = "req" /\ k > 2)
                 => (tr[k - 3] = "fail" /\ tr[k - 2] = "p10" /\ tr[k - 1] = "slept")
        /\ \A k \in DOMAIN tr : tr[k] = "fail" => tr[k - 1] = "req"
        /\ \A k, m \in DOMAIN tr : (tr[k] = "ok" /\ m > k) => tr[m] /= "req"
        /\ \A i \in 1..Len(tasks) :
              /\ tasks[i].nreq = Count(tr, "req")
              /\ tasks[i].pc = "sleep"
                    => /\ page.stage = "Retrying..." /\ page.percent = 10
                       /\ \E k \in 1..Len(timers) :
                             /\ timers[k].kind = "sleep"
                             /\ timers[k].task = tasks[i].id
                             /\ timers[k].delay = 1000
        /\ EndedIn("error")
              => /\ Count(tr, "req") = 3
                 /\ Count(tr, "fail") = 3
                 /\ concluded[1].nreq = 3
                 /\ page.statusMessage
                       = Shown(fetchVideoInfo("retrying", concluded[1].last).message)

\* three requests failed, the last with the server's message, which is shown
C5_Witness ==
    /\ variant = "retrying"
    /\ EndedIn("error")
    /\ concluded[1].nreq = 3
    /\ concluded[1].last.error = Some("quota exceeded")
    /\ page.statusMessage = "quota exceeded"

\* C6: in the state an attempt that failed ends in, the status is the error
\* status with the failure's message, or 'Please try again.' when the failure
\* has no message; the progress indicator and the info panel are hidden and
\* isProcessing is false.  A non-2xx response with error 'quota exceeded' ends
\* in the message 'quota exceeded'.
C6_FailureState ==
    EndedIn("error") =>
        /\ page.statusType = "error"
        /\ ~page.statusHidden
        /\ page.statusTitle = "Download failed"
        /\ page.statusMessage
              = (IF concluded[1].message = "" THEN "Please try again."
                                              ELSE concluded[1].message)
        /\ page.statusMessage /= ""
        /\ (concluded[1].last.kind = "reject"
               => concluded[1].message = concluded[1].last.message)
        /\ (concluded[1].last.error = Some("quota exceeded")
               => page.statusMessage = "quota exceeded")
        /\ page.progressHidden
        /\ page.songHidden
        /\ ~page.isProcessing

\* a request was rejected with no message and the fallback is shown
C6_Witness ==
    /\ EndedIn("error")
    /\ concluded[1].last.kind = "reject"
    /\ concluded[1].last.message = ""
    /\ page.statusMessage = "Please try again."

\* C7: an attempt that ends on a response whose body does not parse shows
\* 'Server error. Please try again.', whatever the status, never the parser's
\* text; one that ends on a parsed body with a non-success status shows the
\* body's error when it holds one, else 'Failed to fetch video info'.
C7_ParseFailureGeneric ==
    (EndedIn("error") /\ concluded[1].last.kind = "response") =>
        LET o == concluded[1].last IN
        /\ ~o.parses
              => /\ page.statusMessage = "Server error. Please try again."
                 /\ page.statusMessage /= ParserText
        /\ (o.parses /\ ~o.ok)
              => page.statusMessage
                    = (IF o.error /= Absent /\ o.error[1] /= ""
                       THEN o.error[1] ELSE "Failed to fetch video info")

\* the percent a progress entry of the trace shows
Percent(e) ==
    CASE e = "p5" -> 5 [] e = "p10" -> 10 [] e = "p30" -> 30 [] e = "p60" -> 60
      [] e = "p100" -> 100

\* C8: the progress updates of an attempt, and the percent text on the page
\* while it runs, never go down, and those of an attempt
\* that succeeds are 5, 10 at most twice, 30, 60, 100, the 100 directly after
\* the trigger's completion signal, with 'Complete!' 100% on the page and the
\* 500 ms and 4000 ms timers set; the 500 ms callback shows the success status
\* and hides progress, the 4000 ms callback of the same attempt runs after it
\* and hides status, progress and info panel and clears the input error.
C8_SuccessOrder ==
    /\ [](LET ps == ProgressTrace IN
          /\ \A k \in 1..(Len(ps) - 1) : Percent(ps[k]) <= Percent(ps[k + 1])
          /\ EndedIn("success")
                => /\ \E n \in 0..2 :
                         ps = <<"p5">> \o [k \in 1..n |-> "p10"] \o <<"p30", "p60", "p100">>
                   /\ SubSeq(CurrentTrace, Len(CurrentTrace) - 1, Len(CurrentTrace))
                         = <<"resolved", "p100">>
                   /\ page.percent = 100 /\ page.stage = "Complete!"
                   /\ ~page.progressHidden
                   /\ Len(timers) >= 2
                   /\ timers[Len(timers) - 1].kind = "success"
                   /\ timers[Len(timers) - 1].delay = 500
                   /\ timers[Len(timers)].kind = "reset"
                   /\ timers[Len(timers)].delay = 4000
          /\ \A k \in 1..Len(timers) :
                timers[k].kind = "success"
                   => (k < Len(timers) /\ timers[k + 1].kind = "reset"))
    /\ [][(page.isProcessing /\ page'.isProcessing) => page'.percent >= page.percent]_vars
    /\ [][FireSuccess
             => /\ page'.statusType = "success"
                /\ page'.statusTitle = "Download started!"
                /\ ~page'.statusHidden
                /\ page'.progressHidden]_vars
    /\ [][FireReset
             => /\ page'.statusHidden
                /\ page'.progressHidden
                /\ page'.songHidden
                /\ ~page'.errorVisible]_vars

\* an attempt has succeeded and both of its callbacks have run, in their order
C8_Witness ==
    /\ variant = "retrying"
    /\ lastOp = "resetFired"
    /\ started = 1
    /\ page.percent = 100
    /\ page.statusType = "success"
    /\ page.statusHidden
    /\ page.progressHidden
    /\ \A k \in 1..Len(timers) : timers[k].kind = "cleanup"

\* C9: when the info fetch of an attempt succeeds, the 'Long video detected'
\* status is shown between the 30% and the 60% update exactly when duration
\* exceeds 900 (it is for 1000; it is not for 500, 900 or no duration), and in
\* both cases the same step goes on to append the frame and start the trigger.
C9_LongVideoNotice ==
    \A i \in 1..Len(tasks) :
        tasks[i].pc = "trigger" =>
            LET d    == tasks[i].info[1].duration
                long == d /= Absent /\ d[1] > 900
                tr   == OwnTrace
                at   == CHOOSE k \in DOMAIN tr : tr[k] = "ok"
                rest == SubSeq(tr, at + 1, Len(tr))
            IN  /\ d = Some(1000) => long
                /\ d \in {Absent, Some(500), Some(900)} => ~long
                /\ long  => rest = <<"p30", "info", "p60", "frame">>
                /\ ~long => rest = <<"p30", "p60", "frame">>
                /\ lastOp = "fetchSettled"
                      => /\ long <=> (page.statusType = "info" /\ ~page.statusHidden)
                         /\ long => /\ page.statusTitle = "Long video detected"
                                    /\ page.statusMessage = LongVideoMessage(tasks[i].info[1])
                         /\ page.percent = 60 /\ page.stage = "Downloading..."
                /\ tasks[i].frame \in frames
                /\ \E k \in 1..Len(timers) :
                      timers[k].kind = "resolve" /\ timers[k].task = tasks[i].id

\* a video of 1000 seconds: the notice is on the page and the trigger is running
C9_Witness ==
    /\ Len(tasks) = 1
    /\ tasks[1].pc = "trigger"
    /\ tasks[1].info = Some([duration |-> Some(1000)])
    /\ lastOp = "fetchSettled"
    /\ page.statusType = "info"
    /\ page.statusMessage = "This video is 16:40. Download may take a few minutes."

FrameTimers(f) == {k \in 1..Len(timers) : timers[k].frame = f}

\* C10: the trigger resolves when its own short timer runs, with the frame
\* still in the document and the cleanup timer, a longer one, only then set;
\* only the cleanup callback removes a frame; a frame in the document has
\* exactly one timer pending for it and a removed frame none; and every frame
\* appended is removed in the end.
C10_FrameLifetime ==
    /\ [](/\ \A i \in 1..Len(tasks) :
                tasks[i].pc = "trigger"
                   => /\ tasks[i].frame \in frames
                      /\ \E k \in 1..Len(timers) :
                            /\ timers[k].kind = "resolve"
                            /\ timers[k].frame = tasks[i].frame
                            /\ timers[k].delay = ResolveDelay(variant)
                            /\ timers[k].delay < CleanupDelay(variant)
          /\ EndedIn("success")
                => /\ concluded[1].frame \in frames
                   /\ \E k \in 1..Len(timers) :
                         /\ timers[k].kind = "cleanup"
                         /\ timers[k].frame = concluded[1].frame
                         /\ timers[k].delay = CleanupDelay(variant)
          /\ \A f \in 1..nextFrame :
                Cardinality(FrameTimers(f)) = (IF f \in frames THEN 1 ELSE 0))
    /\ [][frames' /= frames
             => (FireCleanup \/ (frames \subseteq frames' /\ lastOp' = "fetchSettled"))]_vars
    /\ \A f \in 1..MaxAttempts : (f \in frames) ~> (f \notin frames)

\* the one frame appended has been removed by its cleanup callback
C10_Witness ==
    /\ nextFrame = 1
    /\ frames = {}
    /\ lastOp = "cleanupFired"
    /\ timers = <<>>

\* C11: no step of an attempt and no timer callback changes the text of the URL
\* input: only the user's edit, paste or click on the clear button does, so
\* the text after resetForm is the text submitted unless the user changed it.
C11_InputKept ==
    [][page'.value /= page.value
          => lastOp' \in {"handleInputChange", "handlePaste", "clearInput"}]_vars

\* an attempt has ended, its resetForm callback has run, the typed text is there
C11_Witness ==
    /\ lastOp = "resetFired"
    /\ started = 1
    /\ tasks = <<>>
    /\ page.value = " youtu.be/abc123 "
    /\ page.statusHidden /\ page.progressHidden /\ page.songHidden

\* C14: whenever isProcessing is true the progress indicator is visible, and no
\* callback left from an earlier attempt (its 500 ms or 4000 ms timer) hides
\* the progress indicator or the info panel or changes the status panel while
\* a later attempt is in progress.
C14_ProgressVisible ==
    page.isProcessing => ~page.progressHidden

\* C15: in every reachable state urlInput.disabled and downloadBtn.disabled
\* both equal isProcessing.
C15_DisabledFollowsFlag ==
    /\ page.inputDisabled = page.isProcessing
    /\ page.btnDisabled = page.isProcessing

\* a second attempt is in progress, input and button disabled
C15_Witness ==
    /\ started = 2
    /\ page.isProcessing
    /\ page.inputDisabled
    /\ page.btnDisabled
    /\ lastOp = "handleSubmit"

\* an info request that ended in a response with ok status and a JSON body
GoodOutcome(o) == o.kind = "response" /\ o.ok /\ o.parses

\* C16: the hidden frame carrying the download request is created only in an
\* attempt whose info fetch succeeded, after that success and at most once in
\* the attempt; an attempt that fails at the info fetch creates no frame.
C16_DownloadAfterInfo ==
    /\ [](/\ LET tr == OwnTrace
             IN  /\ Count(tr, "frame") <= 1
                 /\ \A k \in DOMAIN tr :
                        tr[k] = "frame" => (\E j \in 1..(k - 1) : tr[j] = "ok")
                 /\ Count(tr, "ok") = 0 => Count(tr, "frame") = 0
          /\ \A i \in DOMAIN tasks :
                 /\ (tasks[i].frame /= 0) = (tasks[i].pc = "trigger")
                 /\ tasks[i].frame /= 0
                        => GoodOutcome(tasks[i].last) /\ tasks[i].info /= Absent
          /\ EndedIn("error")
                 => /\ concluded[1].frame = 0
                    /\ ~GoodOutcome(concluded[1].last)
                    /\ Count(concluded[1].trace, "frame") = 0
          /\ EndedIn("success") => concluded[1].frame /= 0
          /\ nextFrame <= started)
    /\ [][nextFrame' /= nextFrame
             => /\ nextFrame' = nextFrame + 1
                /\ lastOp' = "fetchSettled"
                /\ \E i \in DOMAIN tasks :
                       /\ tasks[i].pc = "fetch" /\ tasks[i].frame = 0
                       /\ tasks'[i].pc = "trigger" /\ tasks'[i].frame = nextFrame'
                       /\ GoodOutcome(tasks'[i].last)]_vars

\* a retried attempt has created its one frame after the request that succeeded
C16_Witness ==
    /\ variant = "retrying"
    /\ tasks /= <<>>
    /\ tasks[1].pc = "trigger"
    /\ tasks[1].nreq = 2
    /\ tasks[1].frame \in frames
    /\ Count(page.trace, "frame") = 1

\* the text a request carries in its url parameter, as the server decodes it
UrlParameter(request) ==
    IF SubSeq(request, 1, Len(InfoPath)) = InfoPath
    THEN decodeURIComponent(SubSeq(request, Len(InfoPath) + 1, Len(request)))
    ELSE decodeURIComponent(SubSeq(request, Len(DownloadPath) + 1, Len(request)))

\* UrlParameter over the requests the texts of the model give, computed once
received ==
    [r \in {path \o encodeURIComponent(trim(t)) : path \in {InfoPath, DownloadPath}, t \in Texts}
        |-> UrlParameter(r)]

IsInfoRequest(request) == SubSeq(request, 1, Len(InfoPath)) = InfoPath

IsDownloadRequest(request) == SubSeq(request, 1, Len(DownloadPath)) = DownloadPath

\* C17: every info request of an attempt, retries included, and its download
\* request carry the trimmed text that was in the input and passed validateUrl
\* when the attempt was submitted, also when the clear button has emptied the
\* input during the attempt.
C17_SubmittedUrlSent ==
    \A i \in DOMAIN tasks :
        LET t == tasks[i]
            u == trimmed[t.typed]
        IN  /\ u /= "" /\ valid[variant][u]
            /\ Len(t.sent) = t.nreq + (IF t.pc = "trigger" THEN 1 ELSE 0)
            /\ \A k \in 1..t.nreq : IsInfoRequest(t.sent[k])
            /\ t.pc = "trigger" => IsDownloadRequest(t.sent[Len(t.sent)])
            /\ \A k \in DOMAIN t.sent : received[t.sent[k]] = u

\* the input was cleared during an attempt that then retried and sent the
\* download request
C17_Witness ==
    /\ tasks /= <<>>
    /\ tasks[1].pc = "trigger"
    /\ tasks[1].nreq = 2
    /\ Len(tasks[1].sent) = 3
    /\ tasks[1].typed = " youtu.be/abc123 "
    /\ page.value = ""
    /\ page.isProcessing

\* the pieces of a text between its colons
RECURSIVE Split(_)
Split(s) ==
    IF ~InString(":", s) THEN << s >>
    ELSE LET k == CHOOSE i \in 1..Len(s) :
                      CharAt(s, i) = ":" /\ \A j \in 1..(i - 1) : CharAt(s, j) /= ":"
         IN  << SubSeq(s, 1, k - 1) >> \o Split(SubSeq(s, k + 1, Len(s)))

IsNumeral(s) == s /= "" /\ \A i \in 1..Len(s) : InString(CharAt(s, i), Digits)

\* the number a decimal numeral stands for
RECURSIVE Value(_)
Value(s) ==
    IF s = "" THEN 0
    ELSE 10 * Value(SubSeq(s, 1, Len(s) - 1))
         + (CHOOSE d \in 0..9 : CharAt(Digits, d + 1) = CharAt(s, Len(s)))

\* a numeral with no padding
IsPlain(s) == IsNumeral(s) /\ (Len(s) > 1 => CharAt(s, 1) /= "0")

\* a numeral of two digits below 60
IsPadded(s) == IsNumeral(s) /\ Len(s) = 2 /\ Value(s) < 60

\* the call of formatDuration has returned
Formatted == applied /= <<>> /\ applied[1].fn = "formatDuration" /\ applied[1].result /= Absent

\* C12: for an integer s >= 1 formatDuration returns m:ss when s < 3600 and
\* h:mm:ss otherwise, ss (and mm in the hours form) padded to two digits,
\* mm < 60, ss < 60, and h*3600 + mm*60 + ss = s (125 gives '2:05', 3725 gives
\* '1:02:05'); for 0, a negative number or no value it returns '0:00'.
C12_FormatDuration ==
    Formatted =>
        LET d   == applied[1].arg
            out == applied[1].result[1]
            f   == Split(out)
        IN  IF d = Absent \/ d[1] <= 0
            THEN out = "0:00"
            ELSE /\ d[1] < 3600
                      => /\ Len(f) = 2
                         /\ IsPlain(f[1]) /\ IsPadded(f[2])
                         /\ Value(f[1]) * 60 + Value(f[2]) = d[1]
                 /\ d[1] >= 3600
                      => /\ Len(f) = 3
                         /\ IsPlain(f[1]) /\ IsPadded(f[2]) /\ IsPadded(f[3])
                         /\ Value(f[1]) * 3600 + Value(f[2]) * 60 + Value(f[3]) = d[1]
                 /\ d[1] = 125 => out = "2:05"
                 /\ d[1] = 3725 => out = "1:02:05"

\* formatDuration has been applied to 3725
C12_Witness ==
    /\ Formatted
    /\ applied[1].arg = Some(3725)
    /\ applied[1].result = Some("1:02:05")

\* the call of validateUrl has returned
Validated == applied /= <<>> /\ applied[1].fn = "validateUrl" /\ applied[1].result /= Absent

\* the shapes the specification lists as allowed
ListedShapes ==
    { "youtube.com/watch", "youtu.be/", "youtube.com/shorts/", "youtube.com/embed/",
      "music.youtube.com" }

\* text s holds shape lit somewhere, in any case
Holds(s, lit) ==
    \E i \in 1..Len(s), j \in 1..Len(s) : ToLower(SubSeq(s, i, j)) = lit

\* a link of an allowed shape: optional scheme, optional 'www.', the link
IsLink(s) ==
    \E sch \in {"", "http://", "https://"}, w \in {"", "www."},
       body \in { "youtube.com/watch?v=abc123", "youtu.be/abc123",
                  "youtube.com/shorts/abc123", "youtube.com/embed/abc123",
                  "music.youtube.com/watch?v=abc123" } :
        ToLower(s) = sch \o w \o body

=============================================================================
